---- MODULE Spec2Model ----
(***************************************************************************)
(* Verification model of the go-littr federation core:                     *)
(*   - loadAccountData, the gap-fill merge of two Account values           *)
(*     (app/frontend.go);                                                  *)
(*   - keyLoader.GetKey and handler.VerifyHttpSignature, the HTTP          *)
(*     signature middleware (api package).                                 *)
(* Two specifications share the module: SpecMerge drives the merge over    *)
(* bounded inputs, Spec drives concurrent requests through the signature   *)
(* middleware.                                                             *)
(***************************************************************************)
EXTENDS Integers, Sequences, FiniteSets, TLC

\* ------------------------------------------------------------------ bounds
\* Populated field values are drawn from 1..MaxVal (0 is the zero value).
MaxVal == 2
\* Number of loadAccountData calls applied to one destination account.
MaxMerges == 2
\* Number of requests in flight through VerifyHttpSignature.
NumReqs == 2

VARIABLES
    dst,        \* the *Account merged into (parameter a of loadAccountData)
    dst0,       \* dst as it was before the first merge
    srcs,       \* the source accounts (parameter b), indexed 1..2
    applied,    \* indexes of the sources merged so far, in order
    trail,      \* dst after each merge
    hostName,   \* app.Instance.HostName
    challenge,  \* the WWW-Authenticate value built when the middleware is built
    getterAcc,  \* keyLoader.acc of the one getter shared by all requests
    reqs,       \* per request: position, headers, locals, response
    hsIn,       \* the argument s of hideString
    hsOut,      \* what hideString returned
    st,         \* the run of Init: configuration, position, handler state, log
    scIn,       \* Content.Score
    scOut,      \* what ScoreFmt returned
    fbIn,       \* the session loadCurrentAccountFromSession reads
    fbOut,      \* the account loadCurrentAccountFromSession returned
    cb,         \* one HandleCallback request
    storageAcct,\* the account held by the repository shared by all requests
    sess,       \* per request through LoadSession: position, locals, calls
    dbc         \* the run of dbConnection

mergeVars == <<dst, dst0, srcs, applied, trail>>
sigVars == <<hostName, challenge, getterAcc, reqs>>
maskVars == <<hsIn, hsOut>>
startVars == <<st>>
scoreVars == <<scIn, scOut>>
fallbackVars == <<fbIn, fbOut>>
cbVars == <<cb>>
sessVars == <<storageAcct, sess>>
dbVars == <<dbc>>
restVars == <<maskVars, startVars, scoreVars, fallbackVars, cbVars, sessVars, dbVars>>
vars == <<dst, dst0, srcs, applied, trail, hostName, challenge, getterAcc, reqs,
          hsIn, hsOut, st, scIn, scOut, fbIn, fbOut, cb, storageAcct, sess, dbc>>

\* ------------------------------------------------------------------ Account
Hashes == {"e33c4ff5", "a17c9b02"}

StringFields == {"Email", "Handle"}
TimeFields == {"CreatedAt", "UpdatedAt"}
PointerFields == {"CreatedBy", "Metadata", "pub", "Parent"}
SliceFields == {"Votes", "Followers", "Following", "Blocked", "Ignored", "Children"}
Fields == StringFields \cup TimeFields \cup PointerFields \cup SliceFields

\* The k-th value of field f; k = 0 is the field's zero value ("" for a
\* string, the zero time, a nil pointer or map, an empty slice).
FieldVal(f, k) ==
    IF f \in StringFields THEN (IF k = 0 THEN "" ELSE "s" \o ToString(k))
    ELSE IF f \in SliceFields THEN (IF k = 0 THEN <<>> ELSE <<k>>)
    ELSE k

IsZero(t) == t = 0
Nil == 0

\* Whether field f of account acc holds data, by the test loadAccountData
\* applies to that field.
Populated(acc, f) ==
    IF f \in StringFields \cup SliceFields THEN Len(acc[f]) > 0
    ELSE IF f \in TimeFields THEN ~IsZero(acc[f])
    ELSE acc[f] # Nil

HashesEqual(h1, h2) == h1 = h2

\* Mutants of loadAccountData used to show the claims depend on it.
loadAccountData_NoGuard(a, b) ==
    [f \in DOMAIN a |->
        IF f # "Hash" /\ ~Populated(a, f) /\ Populated(b, f) THEN b[f] ELSE a[f]]

loadAccountData_Overwrite(a, b) ==
    IF ~HashesEqual(a.Hash, b.Hash) THEN a
    ELSE [f \in DOMAIN a |->
        IF f = "UpdatedAt" /\ Populated(b, f) THEN b[f]
        ELSE IF f # "Hash" /\ ~Populated(a, f) /\ Populated(b, f) THEN b[f]
        ELSE a[f]]

loadAccountData_SkipIgnored(a, b) ==
    IF ~HashesEqual(a.Hash, b.Hash) THEN a
    ELSE [f \in DOMAIN a |->
        IF f \notin {"Hash", "Ignored"} /\ ~Populated(a, f) /\ Populated(b, f)
        THEN b[f] ELSE a[f]]

loadAccountData_AppendVotes(a, b) ==
    IF ~HashesEqual(a.Hash, b.Hash) THEN a
    ELSE [f \in DOMAIN a |->
        IF f = "Votes" THEN a[f] \o b[f]
        ELSE IF f # "Hash" /\ ~Populated(a, f) /\ Populated(b, f) THEN b[f]
        ELSE a[f]]

loadAccountData_LastWins(a, b) ==
    IF ~HashesEqual(a.Hash, b.Hash) THEN a
    ELSE [f \in DOMAIN a |->
        IF f # "Hash" /\ Populated(b, f) THEN b[f] ELSE a[f]]

\* loadAccountData(a, b): the value of *a after the call. Each if statement
\* of the function tests and assigns one field of a, in the order below.
loadAccountData(a, b) ==
    IF ~HashesEqual(a.Hash, b.Hash) THEN a
    ELSE
    [ Hash |-> a.Hash,
      Email |-> IF Len(a.Email) = 0 /\ Len(b.Email) > 0 THEN b.Email ELSE a.Email,
      Handle |-> IF Len(a.Handle) = 0 /\ Len(b.Handle) > 0 THEN b.Handle ELSE a.Handle,
      CreatedAt |-> IF IsZero(a.CreatedAt) /\ ~IsZero(b.CreatedAt)
                    THEN b.CreatedAt ELSE a.CreatedAt,
      CreatedBy |-> IF a.CreatedBy = Nil /\ b.CreatedBy # Nil
                    THEN b.CreatedBy ELSE a.CreatedBy,
      UpdatedAt |-> IF IsZero(a.UpdatedAt) /\ ~IsZero(b.UpdatedAt)
                    THEN b.UpdatedAt ELSE a.UpdatedAt,
      Metadata |-> IF a.Metadata = Nil /\ b.Metadata # Nil
                   THEN b.Metadata ELSE a.Metadata,
      pub |-> IF a.pub = Nil /\ b.pub # Nil THEN b.pub ELSE a.pub,
      Votes |-> IF Len(a.Votes) = 0 /\ Len(b.Votes) > 0 THEN b.Votes ELSE a.Votes,
      Followers |-> IF Len(a.Followers) = 0 /\ Len(b.Followers) > 0
                    THEN b.Followers ELSE a.Followers,
      Following |-> IF Len(a.Following) = 0 /\ Len(b.Following) > 0
                    THEN b.Following ELSE a.Following,
      Blocked |-> IF Len(a.Blocked) = 0 /\ Len(b.Blocked) > 0
                  THEN b.Blocked ELSE a.Blocked,
      Ignored |-> IF Len(a.Ignored) = 0 /\ Len(b.Ignored) > 0
                  THEN b.Ignored ELSE a.Ignored,
      Parent |-> IF a.Parent = Nil /\ b.Parent # Nil THEN b.Parent ELSE a.Parent,
      Children |-> IF Len(a.Children) = 0 /\ Len(b.Children) > 0
                   THEN b.Children ELSE a.Children ]

\* ------------------------------------------------------------------ merge inputs
\* An account with hash h whose field focus holds its v-th value and whose
\* other fields all hold their g-th value.
MkAccount(h, focus, v, g) ==
    [f \in Fields \cup {"Hash"} |->
        IF f = "Hash" THEN h
        ELSE IF f = focus THEN FieldVal(f, v)
        ELSE FieldVal(f, g)]

ZeroAccount == MkAccount("", "Email", 0, 0)

\* ------------------------------------------------------------------ idle values
SigIdle ==
    /\ hostName = ""
    /\ challenge = <<>>
    /\ getterAcc = <<>>
    /\ reqs = <<>>

MergeIdle ==
    /\ dst = ZeroAccount
    /\ dst0 = ZeroAccount
    /\ srcs = <<>>
    /\ applied = <<>>
    /\ trail = <<>>

MaskIdle == hsIn = <<>> /\ hsOut = <<>>
StartIdle == st = <<>>
ScoreIdle == scIn = <<>> /\ scOut = <<>>
FallbackIdle == fbIn = <<>> /\ fbOut = <<>>
CallbackIdle == cb = <<>>
SessionIdle == storageAcct = <<>> /\ sess = <<>>
DbIdle == dbc = <<>>

RestIdle ==
    /\ MaskIdle /\ StartIdle /\ ScoreIdle
    /\ FallbackIdle /\ CallbackIdle /\ SessionIdle /\ DbIdle

\* ------------------------------------------------------------------ SpecMerge
InitMerge ==
    /\ \E focus \in Fields, hd \in Hashes, vd \in 0..MaxVal, gd \in 0..1 :
          /\ dst = MkAccount(hd, focus, vd, gd)
          /\ dst0 = dst
          /\ \E h1 \in Hashes, h2 \in Hashes, v1 \in 0..MaxVal, v2 \in 0..MaxVal,
                g1 \in {0, 1}, g2 \in {0, 2} :
                srcs = << MkAccount(h1, focus, v1, g1), MkAccount(h2, focus, v2, g2) >>
    /\ applied = <<>>
    /\ trail = <<>>
    /\ SigIdle
    /\ RestIdle

\* One call loadAccountData(&dst, srcs[i]).
LoadAccountData(i) ==
    /\ Len(applied) < MaxMerges
    /\ dst' = loadAccountData(dst, srcs[i])
    /\ applied' = Append(applied, i)
    /\ trail' = Append(trail, dst')
    /\ UNCHANGED <<dst0, srcs>>
    /\ UNCHANGED sigVars
    /\ UNCHANGED restVars

NextMerge == \E i \in 1..2 : LoadAccountData(i)

SpecMerge == InitMerge /\ [][NextMerge]_vars

\* ------------------------------------------------------------------ merge claims
\* dst as it was just before the k-th merge, and the source of that merge.
Before(k) == IF k = 1 THEN dst0 ELSE trail[k - 1]
Source(k) == srcs[applied[k]]
Merges == 1..Len(applied)

\* C1 (identity guard): a merge whose source has a Hash different from the
\* destination's leaves every field of the destination unchanged.
C1_IdentityGuard ==
    \A k \in Merges :
        Before(k).Hash # Source(k).Hash => trail[k] = Before(k)

\* A merge across different hashes where the source had data the destination lacked.
C1_Witness ==
    \E k \in Merges :
        /\ Before(k).Hash # Source(k).Hash
        /\ \E f \in Fields : ~Populated(Before(k), f) /\ Populated(Source(k), f)
        /\ trail[k] = Before(k)

\* C2 (gap-fill never destroys): every merged field that is populated in the
\* destination before a merge has the same value after it, whatever the source holds.
C2_NeverDestroys ==
    \A k \in Merges : \A f \in Fields :
        Populated(Before(k), f) => trail[k][f] = Before(k)[f]

\* A merge between equal hashes where the source holds another value of a
\* field the destination has populated.
C2_Witness ==
    \E k \in Merges : \E f \in Fields :
        /\ Before(k).Hash = Source(k).Hash
        /\ Populated(Before(k), f) /\ Populated(Source(k), f)
        /\ Before(k)[f] # Source(k)[f]
        /\ trail[k][f] = Before(k)[f]

\* C3 (gap-fill completeness): when the hashes are equal, every covered field
\* that is empty in the destination and populated in the source takes the
\* source's value.
C3_Completeness ==
    \A k \in Merges :
        Before(k).Hash = Source(k).Hash =>
            \A f \in Fields :
                ~Populated(Before(k), f) /\ Populated(Source(k), f)
                    => trail[k][f] = Source(k)[f]

\* A merge between equal hashes that filled the Ignored gap and the pub gap.
C3_Witness ==
    \E k \in Merges :
        /\ Before(k).Hash = Source(k).Hash
        /\ \A f \in {"Ignored", "pub"} :
              ~Populated(Before(k), f) /\ Populated(Source(k), f)
        /\ trail[k] # Before(k)

\* C4 (idempotence): merging the same source twice in a row leaves the
\* destination as the first merge left it.
C4_Idempotent ==
    \A k \in Merges :
        (k > 1 /\ applied[k] = applied[k - 1]) => trail[k] = trail[k - 1]

\* The same source merged twice, the first merge having changed the destination.
C4_Witness ==
    \E k \in Merges :
        /\ k > 1 /\ applied[k] = applied[k - 1]
        /\ trail[k - 1] # Before(k - 1)
        /\ Populated(Source(k), "Votes")

\* All three accounts carry the same hash and the first two merges used
\* the two different sources.
BothMerged ==
    /\ Len(applied) >= 2
    /\ applied[1] # applied[2]
    /\ srcs[1].Hash = dst0.Hash
    /\ srcs[2].Hash = dst0.Hash

\* The result of merging the same two sources into dst0 in the other order.
OtherOrder ==
    loadAccountData(loadAccountData(dst0, srcs[applied[2]]), srcs[applied[1]])

\* The sources agree on every field that both populate and dst0 lacks.
SourcesAgree ==
    \A f \in Fields :
        (~Populated(dst0, f) /\ Populated(srcs[1], f) /\ Populated(srcs[2], f))
            => srcs[1][f] = srcs[2][f]

\* C5 as stated (commutativity): merging s1 then s2 yields the same
\* destination as merging s2 then s1.
C5_Commutative == BothMerged => trail[2] = OtherOrder

\* C5 amended: the two orders give the same destination when the sources
\* agree on every field that both populate and the destination lacks;
\* otherwise the source merged first wins such a field.
C5_CommutativeWhenSourcesAgree ==
    BothMerged =>
        /\ SourcesAgree => trail[2] = OtherOrder
        /\ \A f \in Fields :
              ~Populated(dst0, f) /\ Populated(srcs[applied[1]], f)
                  => trail[2][f] = srcs[applied[1]][f]

\* Both sources merged, each contributing a field the other lacks.
C5_Witness ==
    /\ BothMerged
    /\ SourcesAgree
    /\ srcs[1] # srcs[2]
    /\ trail[1] # dst0
    /\ trail[2] # trail[1]

\* ------------------------------------------------------------------ signature middleware
\* Accounts as the middleware sees them: the identity hash and the stored
\* public key bytes (Metadata.Key.Public).
EmptyAccount == [Hash |-> "", Key |-> ""]
AnonymousAccount == [Hash |-> "", Key |-> ""]

\* Public keys that decode as SubjectPublicKeyInfo.
Keys == {"pk1", "pk2"}

\* The account store: two accounts with a valid key, one whose stored key
\* bytes do not decode. Any other hash is unknown to the store.
StoredAccounts ==
    { [Hash |-> "e33c4ff5", Key |-> "pk1"],
      [Hash |-> "a17c9b02", Key |-> "pk2"],
      [Hash |-> "0badc0de", Key |-> "garbage"] }

\* db.Config.LoadAccount(LoadAccountsFilter{Key: {hash}}): (Account, error).
LoadAccount(hash) ==
    IF \E acc \in StoredAccounts : acc.Hash = hash
    THEN [acc |-> CHOOSE acc \in StoredAccounts : acc.Hash = hash, err |-> FALSE]
    ELSE [acc |-> EmptyAccount, err |-> TRUE]

\* x509.ParsePKIXPublicKey succeeds on the bytes.
ParsePKIXPublicKey(bytes) == bytes \in Keys

\* Key ids a request may name: parses tells whether url.Parse accepts the
\* string, hash is path.Base of its path, fragment its URL fragment.
KeyIds ==
    { [parses |-> FALSE, hash |-> "", fragment |-> ""],
      [parses |-> TRUE, hash |-> "e33c4ff5", fragment |-> ""],
      [parses |-> TRUE, hash |-> "e33c4ff5", fragment |-> "main-key-2"] }
    \cup { [parses |-> TRUE, hash |-> h, fragment |-> "main-key"] :
              h \in {"e33c4ff5", "a17c9b02", "0badc0de", "ffffffff"} }
NoKeyId == [parses |-> FALSE, hash |-> "", fragment |-> "none"]

\* The header lists a signature may declare as covered.
CoveredSets ==
    { {"(request-target)", "host", "date"},
      {"(request-target)", "host"},
      {"date"} }

HostNames == {"", "littr.git"}

\* What a request brings: its Authorization header (absent, a Signature
\* credential, or another scheme), whether it has a Signature header, and the
\* parameters of the Signature credential.
Inbound ==
    { [authorization |-> "absent", signatureHdr |-> sig, covered |-> {}, keyId |-> NoKeyId] :
          sig \in BOOLEAN }
    \cup { [authorization |-> "other", signatureHdr |-> FALSE, covered |-> {}, keyId |-> NoKeyId] }
    \cup { [authorization |-> "signature", signatureHdr |-> FALSE, covered |-> cov, keyId |-> id] :
              cov \in CoveredSets, id \in KeyIds }

RequiredHeaders_NoDate == <<"(request-target)", "host">>

\* v.SetRequiredHeaders(...)
RequiredHeaders == <<"(request-target)", "host", "date">>

RECURSIVE Join(_, _)
Join(strs, sep) ==
    IF Len(strs) = 0 THEN ""
    ELSE IF Len(strs) = 1 THEN strs[1]
    ELSE strs[1] \o sep \o Join(Tail(strs), sep)

\* fmt.Sprintf("%q", s)
Quote(s) == "\"" \o s \o "\""

\* The challenge string built when the middleware is constructed.
BuildChallenge(realm) ==
    LET p1 == IF realm # "" THEN << "realm=" \o Quote(realm) >> ELSE <<>>
        headers == RequiredHeaders
        challengeParams ==
            IF Len(headers) > 0
            THEN Append(p1, "headers=" \o Quote(Join(headers, " ")))
            ELSE p1
    IN IF Len(challengeParams) > 0
       THEN "Signature" \o " " \o Join(challengeParams, ", ")
       ELSE "Signature"

\* The verifier's header check: every required header is in the list the
\* signature declares.
VerifyHeaders(covered) ==
    \A i \in 1..Len(RequiredHeaders) : RequiredHeaders[i] \in covered

GetKeyCheck_NoFragment(id) ==
    IF ~id.parses THEN "parse error" ELSE "ok"

\* GetKey up to its store call: url.Parse and the fragment test.
GetKeyCheck(id) ==
    IF ~id.parses THEN "parse error"
    ELSE IF id.fragment # "main-key" THEN "invalid key"
    ELSE "ok"

NewRequest ==
    [ pc |-> "new",
      authorization |-> "absent",   \* r.Header["Authorization"]
      signatureHdr |-> FALSE,       \* r.Header["Signature"] is present
      covered |-> {},               \* the headers parameter of the signature
      keyId |-> NoKeyId,            \* the keyId parameter of the signature
      signedBy |-> "",              \* the key the signature was made with
      acct |-> EmptyAccount,        \* the handler's local acct
      keyResult |-> "none",         \* what GetKey returned
      storeCalls |-> 0,             \* LoadAccount calls made by GetKey
      decodes |-> 0,                \* ParsePKIXPublicKey calls made by GetKey
      verifyCalled |-> FALSE,       \* v.Verify(r) was called
      verifyErr |-> FALSE,          \* v.Verify(r) returned an error
      wwwAuthenticate |-> <<>>,     \* values of the response header
      nextCalls |-> 0,              \* calls of next.ServeHTTP
      ctxAcct |-> EmptyAccount ]    \* the account on the context given to next

\* The tail of the handler: the account goes on the context and next runs.
Serve(req) ==
    [req EXCEPT !.ctxAcct = req.acct, !.nextCalls = @ + 1, !.pc = "done"]

VerifyFailed_KeepsLoaded(req) ==
    Serve([req EXCEPT !.verifyErr = TRUE,
                      !.wwwAuthenticate = Append(@, challenge),
                      !.acct = getterAcc])

\* The branch taken when v.Verify returns an error.
VerifyFailed(req) ==
    Serve([req EXCEPT !.verifyErr = TRUE,
                      !.wwwAuthenticate = Append(@, challenge)])

\* A request enters the handler. It runs to its end unless Verify gets as
\* far as the store call of GetKey.
Receive(r) ==
    /\ reqs[r].pc = "new"
    /\ \E in \in Inbound :
          LET req == [reqs[r] EXCEPT
                         !.authorization = in.authorization,
                         !.signatureHdr = in.signatureHdr,
                         !.covered = in.covered,
                         !.keyId = in.keyId,
                         !.acct = AnonymousAccount]
              called == [req EXCEPT !.verifyCalled = TRUE]
              check == GetKeyCheck(req.keyId)
          IN reqs' = [reqs EXCEPT ![r] =
                 IF req.authorization = "absent" THEN Serve(req)
                 ELSE IF req.authorization = "other" THEN VerifyFailed(called)
                 ELSE IF ~VerifyHeaders(req.covered) THEN VerifyFailed(called)
                 ELSE IF check # "ok"
                      THEN VerifyFailed([called EXCEPT !.keyResult = check])
                 ELSE [called EXCEPT !.pc = "load"]]
    /\ UNCHANGED <<hostName, challenge, getterAcc>>
    /\ UNCHANGED mergeVars
    /\ UNCHANGED restVars

\* GetKey: k.acc, err = db.Config.LoadAccount(...). The assignment copies a
\* struct into the shared getter without synchronisation: the Hash lands in
\* this step and the rest of the struct in GetKeyStore.
GetKeyLoad(r) ==
    /\ reqs[r].pc = "load"
    /\ LET res == LoadAccount(reqs[r].keyId.hash)
       IN getterAcc' = [getterAcc EXCEPT !.Hash = res.acc.Hash]
    /\ reqs' = [reqs EXCEPT ![r].storeCalls = @ + 1, ![r].pc = "store"]
    /\ UNCHANGED <<hostName, challenge>>
    /\ UNCHANGED mergeVars
    /\ UNCHANGED restVars

\* GetKey: the rest of the struct copy, then the test of LoadAccount's error.
GetKeyStore(r) ==
    /\ reqs[r].pc = "store"
    /\ LET res == LoadAccount(reqs[r].keyId.hash)
       IN /\ getterAcc' = [getterAcc EXCEPT !.Key = res.acc.Key]
          /\ reqs' = [reqs EXCEPT ![r] =
                IF res.err
                THEN VerifyFailed([reqs[r] EXCEPT !.keyResult = "load error"])
                ELSE [reqs[r] EXCEPT !.pc = "decode"]]
    /\ UNCHANGED <<hostName, challenge>>
    /\ UNCHANGED mergeVars
    /\ UNCHANGED restVars

\* GetKey: decodes k.acc.Metadata.Key.Public, a read of the shared getter;
\* then Verify checks the signature with the key GetKey returned.
GetKeyDecode(r) ==
    /\ reqs[r].pc = "decode"
    /\ \E signer \in Keys :
          LET bytes == getterAcc.Key
              req == [reqs[r] EXCEPT !.decodes = @ + 1, !.signedBy = signer]
          IN reqs' = [reqs EXCEPT ![r] =
                IF ~ParsePKIXPublicKey(bytes)
                THEN VerifyFailed([req EXCEPT !.keyResult = "decode error"])
                ELSE IF signer # bytes
                THEN VerifyFailed([req EXCEPT !.keyResult = "key"])
                ELSE [req EXCEPT !.keyResult = "key", !.pc = "read"]]
    /\ UNCHANGED <<hostName, challenge, getterAcc>>
    /\ UNCHANGED mergeVars
    /\ UNCHANGED restVars

\* Verify returned nil: acct = getter.acc, a read of the shared getter.
LoadedAccount(r) ==
    /\ reqs[r].pc = "read"
    /\ reqs' = [reqs EXCEPT ![r] = Serve([reqs[r] EXCEPT !.acct = getterAcc])]
    /\ UNCHANGED <<hostName, challenge, getterAcc>>
    /\ UNCHANGED mergeVars
    /\ UNCHANGED restVars

\* The state once VerifyHttpSignature(next) has returned the handler.
Init ==
    /\ hostName \in HostNames
    /\ challenge = BuildChallenge(hostName)
    /\ getterAcc = EmptyAccount
    /\ reqs = [r \in 1..NumReqs |-> NewRequest]
    /\ MergeIdle
    /\ RestIdle

Next ==
    \E r \in 1..NumReqs :
        \/ Receive(r)
        \/ GetKeyLoad(r)
        \/ GetKeyStore(r)
        \/ GetKeyDecode(r)
        \/ LoadedAccount(r)

Spec == Init /\ [][Next]_vars

\* ------------------------------------------------------------------ signature claims
Requests == 1..NumReqs
Done(r) == reqs[r].pc = "done"

\* The request carries a signature, in an Authorization or a Signature header.
CarriesSignature(r) ==
    reqs[r].authorization = "signature" \/ reqs[r].signatureHdr

\* C6 (verification exactly when signed): a finished request was put
\* through Verify exactly when it carried a signature in an Authorization or a
\* Signature header, and a request with neither header reached the next
\* handler as anonymous with no error and no challenge.
C6_VerifiedIffSigned ==
    \A r \in Requests :
        Done(r) =>
            /\ CarriesSignature(r) <=> reqs[r].verifyCalled
            /\ (reqs[r].authorization = "absent" /\ ~reqs[r].signatureHdr) =>
                  /\ reqs[r].ctxAcct = AnonymousAccount
                  /\ reqs[r].nextCalls = 1
                  /\ ~reqs[r].verifyErr
                  /\ reqs[r].wwwAuthenticate = <<>>

\* The signature of the request names covered headers without date.
SignedWithoutDate(r) ==
    reqs[r].authorization = "signature" /\ "date" \notin reqs[r].covered

SignedAndFailed(r) ==
    Done(r) /\ CarriesSignature(r) /\ reqs[r].verifyErr

HeadersParam == "headers=\"(request-target) host date\""

\* C8 as stated: after a failed verification the request reaches the next
\* handler exactly once as the anonymous account, and the response carries
\* the challenge listing realm and the headers.
C8_FailureChallengeWithRealm ==
    \A r \in Requests :
        SignedAndFailed(r) =>
            /\ reqs[r].nextCalls = 1
            /\ reqs[r].ctxAcct = AnonymousAccount
            /\ reqs[r].wwwAuthenticate =
                  << "Signature realm=" \o Quote(hostName) \o ", " \o HeadersParam >>

\* C8 amended: as stated, except that the challenge lists the realm only
\* when the node's host name is not empty; with an empty host name it lists
\* the headers alone.
C8_FailureChallenge ==
    \A r \in Requests :
        SignedAndFailed(r) =>
            /\ reqs[r].nextCalls = 1
            /\ reqs[r].ctxAcct = AnonymousAccount
            /\ reqs[r].wwwAuthenticate =
                  << IF hostName = ""
                     THEN "Signature " \o HeadersParam
                     ELSE "Signature realm=" \o Quote(hostName) \o ", " \o HeadersParam >>

\* A request failed on a bad signature after its key resolution had loaded a
\* stored account into the getter, and another one failed on an unknown account.
C8_Witness ==
    \E r \in Requests, q \in Requests :
        /\ SignedAndFailed(r) /\ SignedAndFailed(q)
        /\ reqs[r].keyResult = "key"
        /\ reqs[r].keyId.hash = "e33c4ff5"
        /\ getterAcc.Hash = "e33c4ff5"
        /\ reqs[q].keyResult = "load error"
        /\ reqs[r].ctxAcct = AnonymousAccount

\* C9 (independent key resolution): after a successful verification the
\* account on the request's context is the account the store holds for the
\* request's own keyId, whatever the other requests in flight do.
C9_OwnAccount ==
    \A r \in Requests :
        (Done(r) /\ reqs[r].verifyCalled /\ ~reqs[r].verifyErr) =>
            reqs[r].ctxAcct = LoadAccount(reqs[r].keyId.hash).acc

\* GetKey was called for the request and has returned.
GetKeyReturned(r) ==
    /\ reqs[r].authorization = "signature"
    /\ VerifyHeaders(reqs[r].covered)
    /\ reqs[r].pc \notin {"new", "load", "store", "decode"}

\* C10 (fragment check): for a key id whose fragment is not exactly main-key
\* GetKey returns the invalid-key error (the URL parse error when the id is
\* no URL at all), having made no store call and decoded no key.
C10_FragmentCheck ==
    \A r \in Requests :
        (GetKeyReturned(r) /\ reqs[r].keyId.fragment # "main-key") =>
            /\ reqs[r].keyResult =
                  (IF reqs[r].keyId.parses THEN "invalid key" ELSE "parse error")
            /\ reqs[r].storeCalls = 0
            /\ reqs[r].decodes = 0

\* GetKey returned for a key id of a stored account with another fragment.
C10_Witness ==
    \E r \in Requests :
        /\ GetKeyReturned(r)
        /\ reqs[r].keyId.parses
        /\ reqs[r].keyId.fragment = "main-key-2"
        /\ reqs[r].keyId.hash = "e33c4ff5"
        /\ reqs[r].keyResult = "invalid key"

\* ---------------------------------------------------------------------
\* hideString (app/frontend.go:49-58)
\* ---------------------------------------------------------------------

\* A Go string is a sequence of bytes; len(s) and s[l-3:] count bytes.
MaxStrLen == 5
Chars == {"a", "b", "c", "d"}
Strings == UNION {[1..n -> Chars] : n \in 0..MaxStrLen}

\* strings.Repeat(c, n)
Repeat(c, n) == [i \in 1..n |-> c]

hideString_LastFour(s) ==
    LET l == Len(s)
    IN  IF l <= 3
        THEN <<"*", "*", "*">>
        ELSE Repeat("*", l - 4) \o SubSeq(s, l - 3, l)

hideString(s) ==
    LET l == Len(s)
    IN  IF l <= 3
        THEN <<"*", "*", "*">>
        ELSE LET ss == Repeat("*", l - 3)
             IN  ss \o SubSeq(s, l - 3 + 1, l)

InitMask ==
    /\ hsIn \in Strings
    /\ hsOut = <<>>
    /\ MergeIdle /\ SigIdle
    /\ StartIdle /\ ScoreIdle /\ FallbackIdle /\ CallbackIdle /\ SessionIdle /\ DbIdle

HideString ==
    /\ hsOut = <<>>
    /\ hsOut' = hideString(hsIn)
    /\ UNCHANGED hsIn
    /\ UNCHANGED <<mergeVars, sigVars, startVars, scoreVars, fallbackVars, cbVars,
                   sessVars, dbVars>>

NextMask == HideString

SpecMask == InitMask /\ [][NextMask]_vars

\* C11: for every string s, hideString(s) is "***" when len(s) <= 3, and
\* otherwise has the length of s, is asterisks in all but its last three
\* places and carries the last three characters of s there; "abcd" gives
\* "*bcd" and "ab" gives "***".
C11_MaskingLaw ==
    hsOut # <<>> =>
        /\ Len(hsIn) <= 3 => hsOut = <<"*", "*", "*">>
        /\ Len(hsIn) > 3 =>
            /\ Len(hsOut) = Len(hsIn)
            /\ \A i \in 1..Len(hsIn) :
                hsOut[i] = IF i <= Len(hsIn) - 3 THEN "*" ELSE hsIn[i]
        /\ hsIn = <<"a", "b", "c", "d">> => hsOut = <<"*", "b", "c", "d">>
        /\ hsIn = <<"a", "b">> => hsOut = <<"*", "*", "*">>

C11_Witness ==
    /\ hsIn = <<"a", "b", "c", "d", "a">>
    /\ hsOut = <<"*", "*", "c", "d", "a">>

\* ---------------------------------------------------------------------
\* Init (app/frontend.go:60-140) with GetOauth2Config (208-265)
\* ---------------------------------------------------------------------

\* Strings are sequences of bytes, as for hideString.  The values that are
\* not secrets use letters outside Chars.
NoString == <<>>
ClientIDs == {NoString, <<"k", "e", "y">>}
ClientSecrets == {NoString, <<"a", "b">>, <<"a", "b", "c", "d">>}
AccessTokens == {<<"b", "a", "d", "c">>, <<"d", "d", "c", "b", "a">>}
RefreshTokens == {NoString, <<"c", "c", "a", "b">>}
Provider == <<"f", "e", "d", "b", "o", "x">>
AppHandle == <<"o", "p">>

\* a nil pointer to a struct; no struct value has this shape
NilPtr == [nil |-> TRUE]

\* *oauth2.Token
Tokens ==
    [AccessToken : AccessTokens, TokenType : {<<"t">>}, RefreshToken : RefreshTokens]

\* GetOauth2Config("fedbox", base): OAUTH2_KEY and OAUTH2_SECRET from the
\* environment, the end points built from API_URL
GetOauth2Config(key, secret) ==
    [ClientID |-> key, ClientSecret |-> secret,
     AuthURL |-> <<"u", "1">>, TokenURL |-> <<"u", "2">>,
     RedirectURL |-> <<"u", "3">>]

\* a log.Ctx is a set of key/value pairs
Kv(k, v) == [k |-> k, v |-> v]

\* log.Ctx{"conf": config}: the whole oauth2.Config value is the field
ConfCtx(config) ==
    {Kv("conf.ClientID", config.ClientID),
     Kv("conf.ClientSecret", config.ClientSecret),
     Kv("conf.Endpoint.AuthURL", config.AuthURL),
     Kv("conf.Endpoint.TokenURL", config.TokenURL),
     Kv("conf.RedirectURL", config.RedirectURL)}

\* ctx of lines 104-112
ClientCtx(handle, config) ==
    {Kv("handle", handle),
     Kv("provider", Provider),
     Kv("client", config.ClientID),
     Kv("pw", hideString(config.ClientSecret)),
     Kv("authURL", config.AuthURL),
     Kv("tokURL", config.TokenURL),
     Kv("redirectURL", config.RedirectURL)}

\* h.errFn / h.infoFn: defaultCtxLogFn drops the record when c.Logger is nil
Emit(log, logger, msg, ctx) ==
    IF logger THEN Append(log, [msg |-> msg, ctx |-> ctx]) ELSE log

InitStart ==
    /\ st \in [pc : {"config"},
               Logger : BOOLEAN,
               UserCreatingEnabled : BOOLEAN,
               config : {GetOauth2Config(k, sec) : k \in ClientIDs, sec \in ClientSecrets},
               app : {NilPtr},
               tok : {NilPtr},
               log : {<<>>},
               err : {FALSE}]
    /\ MergeIdle /\ SigIdle
    /\ MaskIdle /\ ScoreIdle /\ FallbackIdle /\ CallbackIdle /\ SessionIdle /\ DbIdle

notStart ==
    <<mergeVars, sigVars, maskVars, scoreVars, fallbackVars, cbVars, sessVars, dbVars>>

\* lines 89-91 and 131-134
InitConfig ==
    /\ st.pc = "config"
    /\ IF Len(st.config.ClientID) > 0
       THEN st' = [st EXCEPT !.pc = "actor"]
       ELSE st' = [st EXCEPT
                !.UserCreatingEnabled = FALSE,
                !.log = Emit(@, st.Logger, "Failed to load OAuth2 ClientID",
                             ConfCtx(st.config)),
                !.pc = "view"]
    /\ UNCHANGED notStart

\* lines 92-102: h.storage.fedbox.Actor returns (oauth, err)
InitActor ==
    /\ st.pc = "actor"
    /\ \E oauth \in BOOLEAN, err \in BOOLEAN :
        st' = [st EXCEPT
            !.UserCreatingEnabled = IF err THEN FALSE ELSE @,
            !.log = IF err
                    THEN Emit(@, st.Logger, "Failed to load actor", {Kv("err", <<"e">>)})
                    ELSE @,
            !.app = IF oauth
                    THEN [Handle |-> AppHandle, Provider |-> NoString, Token |-> NilPtr]
                    ELSE @,
            !.pc = IF oauth THEN "grant" ELSE "view"]
    /\ UNCHANGED notStart

\* lines 103-129: config.PasswordCredentialsToken returns (tok, err)
InitGrant ==
    /\ st.pc = "grant"
    /\ \E tok \in Tokens \cup {NilPtr}, err \in BOOLEAN :
        LET ctx == ClientCtx(st.app.Handle, st.config)
        IN  IF err
            THEN st' = [st EXCEPT
                    !.UserCreatingEnabled = FALSE,
                    !.log = Emit(@, st.Logger, "Failed to authenticate client",
                                 ctx \cup {Kv("err", <<"e">>)}),
                    !.pc = "view"]
            ELSE IF tok = NilPtr
            THEN \* line 124 reads tok.AccessToken through the nil pointer
                 st' = [st EXCEPT
                    !.UserCreatingEnabled = FALSE,
                    !.log = Emit(@, st.Logger,
                                 "Failed to load a valid OAuth2 token for client", ctx),
                    !.app = [@ EXCEPT !.Provider = Provider, !.Token = NilPtr],
                    !.pc = "panic"]
            ELSE st' = [st EXCEPT
                    !.app = [@ EXCEPT !.Provider = Provider, !.Token = tok],
                    !.tok = tok,
                    !.log = Emit(@, st.Logger, "Loaded valid OAuth2 token for client",
                                 ctx \cup {Kv("token", hideString(tok.AccessToken)),
                                           Kv("type", tok.TokenType),
                                           Kv("refresh", hideString(tok.RefreshToken))}),
                    !.pc = "view"]
    /\ UNCHANGED notStart

\* lines 135-139: ViewInit returns (v, err); Init returns (h, err)
InitView ==
    /\ st.pc = "view"
    /\ \E err \in BOOLEAN :
        st' = [st EXCEPT
            !.log = IF err
                    THEN Emit(@, st.Logger, "Error initializing view", {Kv("err", <<"e">>)})
                    ELSE @,
            !.err = err,
            !.pc = "done"]
    /\ UNCHANGED notStart

NextStart == InitConfig \/ InitActor \/ InitGrant \/ InitView

SpecStart == InitStart /\ [][NextStart]_vars

\* the secrets Init handles: the client secret and the two token strings
StartSecrets ==
    ({st.config.ClientSecret}
        \cup (IF st.tok = NilPtr THEN {} ELSE {st.tok.AccessToken, st.tok.RefreshToken}))
    \ {NoString}

\* C12: on every path of Init every log record contains the OAuth client
\* secret, the access token and the refresh token only masked, never in
\* cleartext.
C12_SecretsMasked ==
    st # <<>> =>
        \A i \in 1..Len(st.log) : \A f \in st.log[i].ctx : f.v \notin StartSecrets

\* C13: for every outcome of the start-up token sequence Init runs to
\* completion, and when it completes with no valid token stored on the local
\* service account UserCreatingEnabled is false.
C13_StartupDegrades ==
    st # <<>> =>
        /\ st.pc # "panic"
        /\ (st.pc = "done" /\ (st.app = NilPtr \/ st.app.Token = NilPtr))
                => ~st.UserCreatingEnabled

\* ---------------------------------------------------------------------
\* Content.ScoreFmt (part_000:122-148)
\* ---------------------------------------------------------------------

\* A score is a sign and the decimal digits of its magnitude, most
\* significant first, <<>> for 0: the int64 range is beyond TLC's integers.
\* The arithmetic below is exact.  float64(c.Score) and the divisions are
\* exact to far less than a tenth for the scores of SmallScores (below 2^53,
\* at least 10^-14 away from every threshold and rounding tie they do not sit
\* on), and the scores of LargeScores are well inside their bucket or an
\* exact power of ten.
ExactDigits == 15
Int64Digits == 19

\* ScoreMultiplier, ScoreMaxK, ScoreMaxM, ScoreMaxB as powers of ten
ScoreMultiplier == 4
ScoreMaxK == 4
ScoreMaxM == 7
ScoreMaxB == 10

\* the one-character string U+221E that line 145 prints
Infinity == "INF"

\* lead at the front, mid at place pos, last at the end, zeros elsewhere
PatternDigits(n, lead, mid, pos, last) ==
    [i \in 1..n |-> IF i = 1 THEN lead
                    ELSE IF i = n THEN last
                    ELSE IF i = pos THEN mid
                    ELSE 0]

Nines(n) == [i \in 1..n |-> 9]

MaxInt64 == <<9, 2, 2, 3, 3, 7, 2, 0, 3, 6, 8, 5, 4, 7, 7, 5, 8, 0, 7>>
MinInt64 == <<9, 2, 2, 3, 3, 7, 2, 0, 3, 6, 8, 5, 4, 7, 7, 5, 8, 0, 8>>

SmallMagnitudes ==
    {<<>>}
    \cup {PatternDigits(n, lead, mid, pos, last) :
            n \in 1..ExactDigits, lead \in {1, 5, 9}, mid \in {0, 4, 5, 9},
            pos \in 2..ExactDigits, last \in {0, 1}}
    \cup {Nines(n) : n \in 1..ExactDigits}

LargeMagnitudes ==
    {PatternDigits(n, lead, 0, 2, 0) : n \in (ExactDigits + 1)..Int64Digits, lead \in {2, 5}}
    \cup {PatternDigits(17, 1, 0, 2, 0)}

Scores ==
    {[neg |-> FALSE, digits |-> <<>>]}
    \cup [neg : BOOLEAN, digits : (SmallMagnitudes \cup LargeMagnitudes) \ {<<>>}]
    \cup {[neg |-> FALSE, digits |-> MaxInt64], [neg |-> TRUE, digits |-> MinInt64]}

IsPow10(ds) == Len(ds) > 0 /\ ds[1] = 1 /\ \A i \in 2..Len(ds) : ds[i] = 0

AllZero(ds) == \A i \in 1..Len(ds) : ds[i] = 0

\* the digits of the number plus one
RECURSIVE Inc(_)
Inc(ds) ==
    IF ds = <<>> THEN <<1>>
    ELSE IF ds[Len(ds)] < 9
    THEN [ds EXCEPT ![Len(ds)] = @ + 1]
    ELSE Inc(SubSeq(ds, 1, Len(ds) - 1)) \o <<0>>

DigitChars == <<"0", "1", "2", "3", "4", "5", "6", "7", "8", "9">>

\* fmt's %d of a magnitude
FmtDigits(ds) == IF ds = <<>> THEN <<"0">> ELSE [i \in 1..Len(ds) |-> DigitChars[ds[i] + 1]]

CeilLog10_Floor(ds, e) == Len(ds) - 1 - e

\* math.Ceil(math.Log10(math.Abs(x))) for x = ds / 10^e, ds not zero
CeilLog10(ds, e) == (IF IsPow10(ds) THEN Len(ds) - 1 ELSE Len(ds)) - e

\* line 128: math.Ceil(base) printed with %d; int(-0.0) prints 0
FmtCeil(score) ==
    LET ds == score.digits
        n == Len(ds)
        q == IF n > ScoreMultiplier THEN SubSeq(ds, 1, n - ScoreMultiplier) ELSE <<>>
        r == IF n > ScoreMultiplier THEN SubSeq(ds, n - ScoreMultiplier + 1, n) ELSE ds
    IN  IF score.neg
        THEN IF q = <<>> THEN <<"0">> ELSE <<"-">> \o FmtDigits(q)
        ELSE FmtDigits(IF AllZero(r) THEN q ELSE Inc(q))

\* line 147: %3.1f of ds / 10^e with the unit; the roundings fmt can make.
\* On an exact tie the outcome depends on the binary value of the float64
\* quotient, so both neighbours are outcomes.
FmtOneDecimal(score, e, units) ==
    LET ds == score.digits
        n == Len(ds)
        kept == SubSeq(ds, 1, n - e + 1)
        rest == SubSeq(ds, n - e + 2, n)
        tie == rest # <<>> /\ rest[1] = 5 /\ AllZero(SubSeq(rest, 2, Len(rest)))
        up == rest # <<>> /\ rest[1] >= 5 /\ ~tie
        Render(k) ==
            (IF score.neg THEN <<"-">> ELSE <<>>)
            \o FmtDigits(SubSeq(k, 1, Len(k) - 1)) \o <<".">>
            \o FmtDigits(<<k[Len(k)]>>) \o <<units>>
    IN  IF tie THEN {Render(kept), Render(Inc(kept))}
        ELSE IF up THEN {Render(Inc(kept))}
        ELSE {Render(kept)}

\* the strings ScoreFmt can return for a score
ScoreFmt(score) ==
    IF score.digits = <<>>
    THEN \* Log10(0) is -Inf, below every threshold
         {FmtCeil(score)}
    ELSE LET d == CeilLog10(score.digits, ScoreMultiplier)
         IN  IF d < 5 THEN {FmtCeil(score)}
             ELSE IF d < 8
             THEN FmtOneDecimal(score, ScoreMultiplier + ScoreMaxK, "K")
             ELSE IF d < 11
             THEN FmtOneDecimal(score, ScoreMultiplier + ScoreMaxM, "M")
             ELSE IF d < 13
             THEN FmtOneDecimal(score, ScoreMultiplier + ScoreMaxB, "B")
             ELSE {(IF score.neg THEN <<"-">> ELSE <<>>) \o <<Infinity>>}

InitScore ==
    /\ scIn \in Scores
    /\ scOut = <<>>
    /\ MergeIdle /\ SigIdle
    /\ MaskIdle /\ StartIdle /\ FallbackIdle /\ CallbackIdle /\ SessionIdle /\ DbIdle

Format ==
    /\ scOut = <<>>
    /\ \E out \in ScoreFmt(scIn) : scOut' = out
    /\ UNCHANGED scIn
    /\ UNCHANGED <<mergeVars, sigVars, maskVars, startVars, fallbackVars, cbVars,
                   sessVars, dbVars>>

NextScore == Format

SpecScore == InitScore /\ [][NextScore]_vars

\* |score| > 10^k
Above(ds, k) == Len(ds) > k + 1 \/ (Len(ds) = k + 1 /\ ~IsPow10(ds))

\* d >= j for d = ceil(log10(|score / 10000|)): |score| > 10^(j - 1 + 4)
DAtLeast(ds, j) == Above(ds, j + 3)

\* out is the score over 10^e to one decimal, with the unit
OneDecimalOf(out, score, e, units) ==
    LET ds == score.digits
        kept == SubSeq(ds, 1, Len(ds) - e + 1)
        rest == SubSeq(ds, Len(ds) - e + 2, Len(ds))
        Shown(k) ==
            (IF score.neg THEN <<"-">> ELSE <<>>)
            \o FmtDigits(SubSeq(k, 1, Len(k) - 1)) \o <<".">>
            \o FmtDigits(<<k[Len(k)]>>) \o <<units>>
    IN  /\ out \in {Shown(kept), Shown(Inc(kept))}
        /\ (rest[1] < 5) => out = Shown(kept)
        /\ (rest[1] > 5) => out = Shown(Inc(kept))

Digits500000 == <<5, 0, 0, 0, 0, 0>>
DigitsTenToTen == <<1, 0, 0, 0, 0, 0, 0, 0, 0, 0, 0>>
DigitsTenToEleven == <<1, 0, 0, 0, 0, 0, 0, 0, 0, 0, 0, 0>>

Anonymous == "anonymous"
AnonymousHash == "77b7b721"

\* var defaultAccount = AnonymousAccount (app package): the anonymous
\* handle and hash, with metadata
defaultAccount ==
    [ZeroAccount EXCEPT !.Hash = AnonymousHash, !.Handle = Anonymous, !.Metadata = 1]

\* Account.IsLogged: a known identity other than the anonymous one
IsLogged(a) == Len(a.Hash) > 0 /\ a.Hash # AnonymousHash /\ a.Handle # Anonymous

\* accounts a session may hold
SessionAccounts ==
    {MkAccount(h, f, 1, g) : h \in Hashes, f \in {"Handle", "Metadata", "Followers"},
                             g \in 0..1}
    \cup {defaultAccount}

\* s.Values[SessionUserKey]: absent, an Account, or a value of another type
RawValues ==
    {[type |-> "none", acc |-> ZeroAccount]}
    \cup [type : {"Account", "*Account"}, acc : SessionAccounts]

\* what the call sees: v.s.enabled, w == nil, r == nil, the error of
\* v.s.get, and the stored value
SessionInputs ==
    [enabled : BOOLEAN, wNil : BOOLEAN, rNil : BOOLEAN, getErr : BOOLEAN, raw : RawValues]

loadCurrentAccountFromSession(s) ==
    IF ~s.enabled \/ s.wNil \/ s.rNil THEN defaultAccount
    ELSE IF s.getErr THEN defaultAccount
    ELSE IF s.raw.type = "none" THEN defaultAccount
    ELSE IF s.raw.type # "Account"
    THEN \* line 302: the failed assertion assigns acc the zero Account
         ZeroAccount
    ELSE s.raw.acc

InitFallback ==
    /\ fbIn \in SessionInputs
    /\ fbOut = <<>>
    /\ MergeIdle /\ SigIdle
    /\ MaskIdle /\ StartIdle /\ ScoreIdle /\ CallbackIdle /\ SessionIdle /\ DbIdle

LoadCurrentAccountFromSession ==
    /\ fbOut = <<>>
    /\ fbOut' = loadCurrentAccountFromSession(fbIn)
    /\ UNCHANGED fbIn
    /\ UNCHANGED <<mergeVars, sigVars, maskVars, startVars, scoreVars, cbVars,
                   sessVars, dbVars>>

NextFallback == LoadCurrentAccountFromSession

SpecFallback == InitFallback /\ [][NextFallback]_vars

\* C18: loadCurrentAccountFromSession returns the anonymous default account
\* whenever no valid account can be read (sessions disabled, nil writer or
\* request, session retrieval error, no value under the user key, a stored
\* value that is not an Account) and the stored account only when the
\* stored value is an Account.
C18_SessionFallback ==
    fbOut # <<>> =>
        IF /\ fbIn.enabled /\ ~fbIn.wNil /\ ~fbIn.rNil /\ ~fbIn.getErr
           /\ fbIn.raw.type = "Account"
        THEN fbOut = fbIn.raw.acc
        ELSE fbOut = defaultAccount

\* ---------------------------------------------------------------------
\* HandleCallback (app/frontend.go:158-206)
\* ---------------------------------------------------------------------

MaxDescriptions == 2
Providers == {"fedbox", "local"}
Descriptions == {"access_denied", "server_error"}
DescriptionLists == UNION {[1..n -> Descriptions] : n \in 0..MaxDescriptions}

\* an OAuth value not yet assigned
NoOAuth == [State |-> "", Code |-> "", Provider |-> "", Token |-> NilPtr]

\* view.saveAccountToSession(w, r, a) with non-nil w and r: whether the
\* account is stored, and the error returned
saveAccountToSession(s, saveErr) ==
    IF ~s.enabled THEN [stored |-> FALSE, err |-> FALSE]
    ELSE IF s.getErr THEN [stored |-> FALSE, err |-> TRUE]
    ELSE [stored |-> TRUE, err |-> saveErr]

\* errors handed to HandleErrors
ProviderError(provider) == [kind |-> "error", text |-> "Error for provider", arg |-> provider]
DescriptionError(desc) == [kind |-> "error", text |-> desc, arg |-> ""]
EmptyCodeError(provider) ==
    [kind |-> "Forbidden", text |-> "error: Empty authentication token", arg |-> provider]
ExchangeError(kind) == [kind |-> kind, text |-> "exchange", arg |-> ""]

\* lines 164-168: errs
CallbackErrors_NoDescriptions(provider, errDescriptions) == <<ProviderError(provider)>>

CallbackErrors(provider, errDescriptions) ==
    <<ProviderError(provider)>>
    \o [i \in 1..Len(errDescriptions) |-> DescriptionError(errDescriptions[i])]

InitCallback ==
    /\ cb \in [pc : {"query"},
               provider : Providers,
               providerErr : BOOLEAN,
               errDescriptions : DescriptionLists,
               code : {"", "c0de"},
               state : {"", "st4te"},
               session : [enabled : BOOLEAN, wNil : {FALSE}, rNil : {FALSE},
                          getErr : BOOLEAN,
                          raw : {v \in RawValues : v.acc.Hash \in {"", "e33c4ff5"}}],
               cancelled : {FALSE},
               exchanged : {"no"},
               reported : {<<>>},
               account : {ZeroAccount},
               oauth : {NoOAuth},
               saved : {FALSE},
               flash : {""},
               redirect : {""}]
    /\ MergeIdle /\ SigIdle
    /\ MaskIdle /\ StartIdle /\ ScoreIdle /\ FallbackIdle /\ SessionIdle /\ DbIdle

notCallback ==
    <<mergeVars, sigVars, maskVars, startVars, scoreVars, fallbackVars, sessVars, dbVars>>

\* lines 159-177
CallbackQuery ==
    /\ cb.pc = "query"
    /\ IF cb.providerErr
       THEN cb' = [cb EXCEPT !.reported = CallbackErrors(cb.provider, cb.errDescriptions),
                             !.pc = "done"]
       ELSE IF Len(cb.code) = 0
       THEN cb' = [cb EXCEPT !.reported = <<EmptyCodeError(cb.provider)>>, !.pc = "done"]
       ELSE cb' = [cb EXCEPT !.pc = "exchange"]
    /\ UNCHANGED notCallback

\* the client goes away: r.Context() is cancelled
CallbackCancel ==
    /\ cb.pc = "exchange"
    /\ ~cb.cancelled
    /\ cb' = [cb EXCEPT !.cancelled = TRUE]
    /\ UNCHANGED notCallback

\* lines 179-206: conf.Exchange(r.Context(), code) fails at once on a
\* cancelled context; otherwise it returns a token or the provider's error
CallbackExchange ==
    /\ cb.pc = "exchange"
    /\ \E tok \in Tokens, fails \in BOOLEAN, saveErr \in BOOLEAN :
        IF cb.cancelled \/ fails
        THEN cb' = [cb EXCEPT
                !.exchanged = IF cb.cancelled THEN "Cancelled" ELSE "failed",
                !.reported = <<ExchangeError(IF cb.cancelled THEN "Cancelled" ELSE "failed")>>,
                !.pc = "done"]
        ELSE LET account == loadCurrentAccountFromSession(cb.session)
                 save == saveAccountToSession(cb.session, saveErr)
             IN  IF account.Metadata = Nil
                 THEN \* line 188 assigns through the nil Metadata pointer
                      cb' = [cb EXCEPT !.exchanged = "ok", !.account = account,
                                       !.pc = "panic"]
                 ELSE cb' = [cb EXCEPT
                        !.exchanged = "ok",
                        !.account = account,
                        !.oauth = [State |-> cb.state, Code |-> cb.code,
                                   Provider |-> cb.provider, Token |-> tok],
                        !.saved = save.stored,
                        !.flash = IF save.err THEN ""
                                  ELSE IF cb.provider # "local"
                                  THEN "Login successful with provider"
                                  ELSE "Login successful",
                        !.redirect = "/",
                        !.pc = "done"]
    /\ UNCHANGED notCallback

NextCallback == CallbackQuery \/ CallbackCancel \/ CallbackExchange

SpecCallback == InitCallback /\ [][NextCallback]_vars

CallbackStopped == cb.oauth = NoOAuth /\ ~cb.saved /\ cb.redirect = "" /\ cb.flash = ""

\* C15: with an error parameter in the query HandleCallback reports (after
\* the error naming the provider) one error per error_description value and
\* stops; with an empty code it reports a Forbidden error naming the provider
\* and stops; when the exchange fails it reports that error and stops; in
\* these cases no OAuth data is written to the session, and the session
\* account's OAuth metadata is written only after a successful exchange.
C15_CallbackErrors ==
    (cb # <<>> /\ cb.pc \in {"done", "panic"}) =>
        /\ cb.providerErr =>
            /\ Len(cb.reported) = 1 + Len(cb.errDescriptions)
            /\ cb.reported[1].arg = cb.provider
            /\ \A i \in 1..Len(cb.errDescriptions) :
                cb.reported[i + 1].text = cb.errDescriptions[i]
            /\ cb.exchanged = "no"
            /\ CallbackStopped
        /\ (~cb.providerErr /\ cb.code = "") =>
            /\ cb.reported = <<EmptyCodeError(cb.provider)>>
            /\ cb.reported[1].kind = "Forbidden"
            /\ cb.exchanged = "no"
            /\ CallbackStopped
        /\ cb.exchanged \in {"failed", "Cancelled"} =>
            /\ cb.reported = <<ExchangeError(cb.exchanged)>>
            /\ CallbackStopped
        /\ (cb.oauth # NoOAuth \/ cb.saved) => (cb.exchanged = "ok" /\ cb.reported = <<>>)

C15_Witness ==
    /\ cb # <<>>
    /\ cb.pc = "done"
    /\ cb.providerErr
    /\ cb.errDescriptions = <<"access_denied", "server_error">>
    /\ Len(cb.reported) = 3

\* ---------------------------------------------------------------------
\* LoadSession (app/frontend.go:376-460), sessions enabled
\* ---------------------------------------------------------------------

NumSessions == 2
SessionRequests == 1..NumSessions

\* repository.WithAccount(a) keeps a in the repository every request
\* shares; the value is nil (NoRequest) or &acc of request r (r)
NoRequest == 0
WithAccount(a) == a

\* Account.IsValid
IsValid(a) == Len(a.Hash) > 0

\* what a store or network call bound to ctx can return once it is started:
\* a call on the request's context fails when the request is cancelled, a
\* call on context.Background() does not see the cancellation
StoreOutcomes(ctx, cancelled) ==
    IF ctx = "request" /\ cancelled THEN {"Cancelled"} ELSE {"ok", "err"}

\* the session of a request: nothing stored, or a logged-in account
SessionStates ==
    [enabled : {TRUE}, wNil : {FALSE}, rNil : {FALSE}, getErr : {FALSE},
     raw : {[type |-> "none", acc |-> ZeroAccount],
            [type |-> "Account", acc |-> MkAccount("e33c4ff5", "Handle", 1, 0)]}]

\* the lists h.storage.accounts can return for the handle of acc
AccountLists(acc) ==
    {<<>>,
     <<ZeroAccount>>,
     <<MkAccount(acc.Hash, "Email", 1, 0)>>,
     <<MkAccount(acc.Hash, "Followers", 1, 0)>>}

\* no store call made yet
NoCall ==
    [op |-> "none", ctx |-> "", cancelled |-> FALSE, outcome |-> "", repoAcct |-> NoRequest]

NewSessionRequest(s) ==
    [pc |-> "start",
     session |-> s,
     acc |-> ZeroAccount,
     cancelled |-> FALSE,
     lookup |-> "none",
     merged |-> FALSE,
     call |-> NoCall,
     nextCalls |-> <<>>,
     ctxAcct |-> <<>>]

InitSession ==
    /\ storageAcct = NoRequest
    /\ \E ss \in [SessionRequests -> SessionStates] :
        sess = [r \in SessionRequests |-> NewSessionRequest(ss[r])]
    /\ MergeIdle /\ SigIdle
    /\ MaskIdle /\ StartIdle /\ ScoreIdle /\ FallbackIdle /\ CallbackIdle /\ DbIdle

notSession ==
    <<mergeVars, sigVars, maskVars, startVars, scoreVars, fallbackVars, cbVars, dbVars>>

\* the latest call of the store for request r: the context it is given, whether the
\* request was cancelled when it started, the outcome, and the account the
\* repository held during the call
StoreCall(r, op, ctx, outcome) ==
    [op |-> op, ctx |-> ctx, cancelled |-> sess[r].cancelled, outcome |-> outcome,
     repoAcct |-> storageAcct]

\* ctxtErr(next, w, r, err): runs next with err on the request context
ctxtErr(calls, merged) ==
    Append(calls, [via |-> "ctxtErr", account |-> FALSE, merged |-> merged])

\* lines 381-388
SessStart(r) ==
    /\ sess[r].pc = "start"
    /\ storageAcct' = WithAccount(NoRequest)
    /\ LET acc == loadCurrentAccountFromSession(sess[r].session)
       IN  sess' = [sess EXCEPT ![r].acc = acc,
                                ![r].pc = IF IsLogged(acc) THEN "accounts" ELSE "next"]
    /\ UNCHANGED notSession

\* the client of request r goes away: r.Context() is cancelled
SessCancel(r) ==
    /\ sess[r].pc \in {"accounts", "followers", "following", "blocked", "votes"}
    /\ ~sess[r].cancelled
    /\ sess' = [sess EXCEPT ![r].cancelled = TRUE]
    /\ UNCHANGED storageAcct
    /\ UNCHANGED notSession

\* lines 389-412: ctx := context.Background(); h.storage.accounts(ctx, f)
SessAccounts(r) ==
    /\ sess[r].pc = "accounts"
    /\ LET ctx == "Background"
       IN  \E outcome \in StoreOutcomes(ctx, sess[r].cancelled),
              accounts \in AccountLists(sess[r].acc) :
            IF outcome # "ok"
            THEN /\ sess' = [sess EXCEPT
                        ![r].call = StoreCall(r, "accounts", ctx, outcome),
                        ![r].lookup = "err",
                        ![r].nextCalls = ctxtErr(@, FALSE),
                        ![r].pc = "followers"]
                 /\ storageAcct' = WithAccount(r)
            ELSE IF Len(accounts) = 0
            THEN \* line 406 indexes the empty list
                 /\ sess' = [sess EXCEPT
                        ![r].call = StoreCall(r, "accounts", ctx, outcome),
                        ![r].lookup = "empty",
                        ![r].pc = "panic"]
                 /\ UNCHANGED storageAcct
            ELSE /\ sess' = [sess EXCEPT
                        ![r].call = StoreCall(r, "accounts", ctx, outcome),
                        ![r].lookup = IF IsValid(accounts[1]) THEN "valid" ELSE "invalid",
                        ![r].nextCalls = IF IsValid(accounts[1]) THEN @
                                         ELSE ctxtErr(@, FALSE),
                        ![r].acc = loadAccountData(@, accounts[1]),
                        ![r].merged = TRUE,
                        ![r].pc = "followers"]
                 /\ storageAcct' = WithAccount(r)
    /\ UNCHANGED notSession

LoadStages == <<"followers", "following", "blocked", "votes", "next">>
StageOf(pc) == CHOOSE i \in 1..4 : LoadStages[i] = pc

\* the test that guards the load of a stage
NeedsLoad(acc, stage) ==
    IF stage = "followers" THEN Len(acc.Followers) = 0
    ELSE IF stage = "following" THEN Len(acc.Following) = 0
    ELSE IF stage = "blocked" THEN Len(acc.Blocked) = 0 \/ Len(acc.Ignored) = 0
    ELSE Len(acc.Votes) = 0

\* the account a successful load of a stage returns
Loaded(acc, stage) ==
    IF stage = "followers" THEN [acc EXCEPT !.Followers = <<1>>]
    ELSE IF stage = "following" THEN [acc EXCEPT !.Following = <<1>>]
    ELSE IF stage = "blocked" THEN [acc EXCEPT !.Blocked = <<1>>, !.Ignored = <<1>>]
    ELSE [acc EXCEPT !.Votes = <<1>>]

\* lines 413-443: loadAccountsFollowers, loadAccountsFollowing,
\* loadAccountsBlockedIgnored, loadAccountVotes with loadAccountsOutbox,
\* each on ctx and each skipped when the session account has the data
SessLoad(r) ==
    /\ sess[r].pc \in {"followers", "following", "blocked", "votes"}
    /\ LET stage == sess[r].pc
           following == LoadStages[StageOf(stage) + 1]
           ctx == "Background"
       IN  IF ~NeedsLoad(sess[r].acc, stage)
           THEN sess' = [sess EXCEPT ![r].pc = following]
           ELSE \E outcome \in StoreOutcomes(ctx, sess[r].cancelled) :
                sess' = [sess EXCEPT
                    ![r].call = StoreCall(r, stage, ctx, outcome),
                    ![r].acc = IF outcome = "ok" THEN Loaded(@, stage) ELSE @,
                    ![r].pc = following]
    /\ UNCHANGED storageAcct
    /\ UNCHANGED notSession

\* lines 445-457
SessNext(r) ==
    /\ sess[r].pc = "next"
    /\ sess' = [sess EXCEPT
            ![r].ctxAcct = sess[r].acc,
            ![r].nextCalls = Append(@, [via |-> "LoadSession", account |-> TRUE,
                                        merged |-> sess[r].merged]),
            ![r].pc = "done"]
    /\ UNCHANGED storageAcct
    /\ UNCHANGED notSession

NextSession ==
    \E r \in SessionRequests :
        SessStart(r) \/ SessCancel(r) \/ SessAccounts(r) \/ SessLoad(r) \/ SessNext(r)

SpecSession == InitSession /\ [][NextSession]_vars

\* C16: every store operation started while handling a request is bound to
\* the request's cancellation signal: started after the request was
\* cancelled, it fails with Cancelled instead of running on.
C16_BoundToRequest ==
    sess # <<>> =>
        \A r \in SessionRequests :
            LET o == sess[r].call
            IN  o.op # "none" =>
                    /\ o.ctx = "request"
                    /\ o.cancelled => o.outcome = "Cancelled"

\* C17: the account the shared repository holds while it loads followers,
\* following, blocked or votes for request r is r's own session account,
\* never the one (or nil) set by another request in flight.
C17_RepositoryAccountOwn ==
    sess # <<>> =>
        \A r \in SessionRequests :
            LET o == sess[r].call
            IN  o.op \in {"followers", "following", "blocked", "votes"} => o.repoAcct = r

\* C19: for every result of the account lookup of a logged-in session
\* account (error, empty list, invalid first account, valid first account)
\* LoadSession finishes without a runtime failure and runs the next handler
\* with an account on the request context, the merge with the stored account
\* coming before the next handler runs.
C19_LoadSessionCompletes ==
    sess # <<>> =>
        \A r \in SessionRequests :
            /\ sess[r].pc # "panic"
            /\ sess[r].pc = "done" =>
                LET last == sess[r].nextCalls[Len(sess[r].nextCalls)]
                IN  /\ last.via = "LoadSession"
                    /\ last.account
                    /\ sess[r].ctxAcct = sess[r].acc
                    /\ sess[r].lookup \in {"valid", "invalid"} => last.merged

\* ---------------------------------------------------------------------
\* dbConnection (cli/bootstrap/main.go:19-59)
\* ---------------------------------------------------------------------

\* the loop has no bound; the model stops feeding failures after MaxPings
MaxPings == 720

\* an error interface value: its dynamic type and its pointer
NilError == [type |-> "nil", ptr |-> "nil"]
IsNilError(e) == e.type = "nil"

\* results of db.Ping()
PingResults == {"ok", "OpError", "other"}

ReturnedError_NilInterface(result) == NilError

\* line 54, return db, t: in the else branch t is the nil *net.OpError the
\* failed assertion left, and it is returned as an error interface
ReturnedError(result) == [type |-> "*net.OpError", ptr |-> "nil"]

InitDb ==
    /\ dbc \in [pc : {"check"},
                dbUser : {"", "littr"},
                dbPw : {"", "pw"},
                cnt : {0},
                pings : {0},
                lastPing : {"none"},
                sleptMs : {0},
                dots : {0},
                newlines : {0},
                db : {FALSE},
                err : {NilError}]
    /\ MergeIdle /\ SigIdle
    /\ MaskIdle /\ StartIdle /\ ScoreIdle /\ FallbackIdle /\ CallbackIdle /\ SessionIdle

notDb ==
    <<mergeVars, sigVars, maskVars, startVars, scoreVars, fallbackVars, cbVars, sessVars>>

\* lines 20-25: without user and password cmd.E(err) decides on os.Exit(1)
DbCheck ==
    /\ dbc.pc = "check"
    /\ IF dbc.dbUser = "" /\ dbc.dbPw = ""
       THEN \E e \in BOOLEAN : dbc' = [dbc EXCEPT !.pc = IF e THEN "open" ELSE "exited"]
       ELSE dbc' = [dbc EXCEPT !.pc = "open"]
    /\ UNCHANGED notDb

\* lines 27-33 and 58: sql.Open
DbOpen ==
    /\ dbc.pc = "open"
    /\ \E ok \in BOOLEAN :
        dbc' = IF ok
               THEN [dbc EXCEPT !.pc = "ping"]
               ELSE [dbc EXCEPT !.pc = "returned", !.db = FALSE,
                                !.err = [type |-> "error", ptr |-> "open"]]
    /\ UNCHANGED notDb

\* lines 37-55: one db.Ping() and the branch taken on its result
DbPing ==
    /\ dbc.pc = "ping"
    /\ \E result \in PingResults :
        /\ result = "OpError" => dbc.cnt < MaxPings
        /\ dbc' = IF result = "ok"
                  THEN [dbc EXCEPT !.pings = @ + 1, !.lastPing = result,
                                   !.newlines = IF dbc.cnt > 0 THEN @ + 1 ELSE @,
                                   !.db = TRUE, !.err = NilError, !.pc = "returned"]
                  ELSE IF result = "OpError"
                  THEN LET cnt == dbc.cnt + 1
                       IN  [dbc EXCEPT !.pings = @ + 1, !.lastPing = result,
                                       !.cnt = cnt,
                                       !.dots = IF cnt % 10 = 0 THEN @ + 1 ELSE @,
                                       !.newlines = IF cnt = (720 - 22) \/ cnt % 720 = 0
                                                    THEN @ + 1 ELSE @,
                                       !.pc = "sleep"]
                  ELSE [dbc EXCEPT !.pings = @ + 1, !.lastPing = result,
                                   !.db = TRUE, !.err = ReturnedError(result),
                                   !.pc = "returned"]
    /\ UNCHANGED notDb

\* line 51: time.Sleep(100 * time.Millisecond)
DbSleep ==
    /\ dbc.pc = "sleep"
    /\ dbc' = [dbc EXCEPT !.sleptMs = @ + 100, !.pc = "ping"]
    /\ UNCHANGED notDb

NextDb == DbCheck \/ DbOpen \/ DbPing \/ DbSleep

SpecDb == InitDb /\ [][NextDb]_vars

\* C20: after a successful open dbConnection returns (db, nil) only after a
\* ping has succeeded; while the ping fails with a network operation error
\* it pauses 100ms and pings again, however often that has happened; on the
\* first ping failure that is not a network operation error it stops and
\* returns a non-nil error.
C20_PingRetry ==
    dbc # <<>> =>
        /\ (dbc.pc = "returned" /\ IsNilError(dbc.err)) =>
                (dbc.db /\ dbc.lastPing = "ok")
        /\ dbc.lastPing = "OpError" => dbc.pc \in {"sleep", "ping"}
        /\ dbc.pc = "ping" => (dbc.pings = dbc.cnt /\ dbc.sleptMs = 100 * dbc.cnt)
        /\ dbc.pc = "sleep" => dbc.sleptMs = 100 * (dbc.cnt - 1)
        /\ (dbc.pc = "returned" /\ dbc.lastPing = "other") =>
                (~IsNilError(dbc.err) /\ dbc.pings = dbc.cnt + 1)
        /\ (dbc.pc = "returned" /\ dbc.lastPing = "ok") => dbc.pings = dbc.cnt + 1

C20_Witness ==
    /\ dbc # <<>>
    /\ dbc.pc = "returned"
    /\ dbc.lastPing = "other"
    /\ dbc.cnt = 700
    /\ dbc.sleptMs = 70000
    /\ ~IsNilError(dbc.err)
====
